---- MODULE Spec2Model ----
(***************************************************************************)
(* Model of hawkes/hawkes.py: EM estimation of a univariate Hawkes process *)
(* with an exponential kernel.                                             *)
(*                                                                         *)
(* Numbers.  Timestamps are integers.  Every other quantity is an exact    *)
(* rational [n, d] in lowest terms with d > 0, or one of the three IEEE    *)
(* special values the numpy operations of the source produce instead of    *)
(* raising: +inf = [1,0], -inf = [-1,0], nan = [0,0].                      *)
(* The decay rate b is measured in units of ln 2, so that                  *)
(* exp(-b * x) = 2^(-b*x) is an exact rational for integer b and x.        *)
(***************************************************************************)
EXTENDS Integers, Sequences, FiniteSets, TLC

VARIABLES
    t, niter, mu0, a0, b0, hasCb,   \* arguments of ExpectationMaximization
    maxTd,                          \* argument max_td of SparseTDMatrix
    pc,                             \* position in ExpectationMaximization
    it,                             \* iterations of the loop completed
    T, dt, mu, a, b, p, S,          \* its locals (S holds S0, S1, S2)
    bound,                          \* the names of the locals that are bound
    sp,                             \* the triplets SparseTDMatrix builds
    trace,                          \* E-steps, M-steps and callback calls so far
    err                             \* the exception that ended the call

vars == <<t, niter, mu0, a0, b0, hasCb, maxTd,
          pc, it, T, dt, mu, a, b, p, S, bound, sp, trace, err>>

\* ------------------------------------------------------------------ bounds
\* timestamps are drawn from 0..MaxTime
MaxTime == 3
\* at most MaxN events
MaxN == 3
\* sparse thresholds are drawn from 0..MaxTd
MaxTd == 5
\* iteration counts are drawn from 0..MaxIter
MaxIter == 2
\* the root-finder returns a non-zero b with |b| <= MaxB
MaxB == 1
\* initial mu0 is drawn from 0..MaxParam (0 is invalid), a0 from 1..MaxParam
MaxParam == 2
\* numerators and denominators are explored up to this magnitude; a step
\* whose result would not fit is not taken (the run is explored no further)
MaxMag == 134217728

\* ------------------------------------------------------- exact arithmetic
Abs(x) == IF x < 0 THEN -x ELSE x

Sgn(x) == IF x < 0 THEN -1 ELSE IF x > 0 THEN 1 ELSE 0

RECURSIVE GCD(_, _)
GCD(x, y) == IF y = 0 THEN x ELSE GCD(y, x % y)

RECURSIVE Pow2(_)
Pow2(e) == IF e = 0 THEN 1 ELSE 2 * Pow2(e - 1)

NaN == [n |-> 0, d |-> 0]

Inf(s) == [n |-> s, d |-> 0]

\* the mark of a value beyond MaxMag
Big == [n |-> 2, d |-> 0]

IsFin(x) == x.d # 0

IsNaN(x) == x.d = 0 /\ x.n = 0

IsBig(x) == x = Big

MulFits(x, y) == x = 0 \/ y = 0 \/ Abs(x) <= MaxMag \div Abs(y)

Frac(num, den) ==
    LET g == GCD(Abs(num), Abs(den))
    IN  [n |-> Sgn(den) * (num \div g), d |-> Abs(den) \div g]

FromInt(i) == [n |-> i, d |-> 1]

Zero == FromInt(0)

One == FromInt(1)

Neg(x) == IF IsBig(x) THEN Big ELSE [n |-> -x.n, d |-> x.d]

Add(x, y) ==
    IF IsBig(x) \/ IsBig(y) THEN Big
    ELSE IF IsFin(x) /\ IsFin(y)
    THEN LET g == GCD(x.d, y.d)
             fx == y.d \div g
             fy == x.d \div g
         IN  IF MulFits(fy, y.d) /\ MulFits(x.n, fx) /\ MulFits(y.n, fy)
             THEN Frac(x.n * fx + y.n * fy, fy * y.d)
             ELSE Big
    ELSE IF IsNaN(x) \/ IsNaN(y) THEN NaN
    ELSE IF IsFin(x) THEN y
    ELSE IF IsFin(y) THEN x
    ELSE IF x.n = y.n THEN x ELSE NaN

Sub(x, y) == Add(x, Neg(y))

Mul(x, y) ==
    IF IsBig(x) \/ IsBig(y) THEN Big
    ELSE IF IsFin(x) /\ IsFin(y)
    THEN LET g1 == GCD(Abs(x.n), y.d)
             g2 == GCD(Abs(y.n), x.d)
             n1 == x.n \div g1
             n2 == y.n \div g2
             d1 == x.d \div g2
             d2 == y.d \div g1
         IN  IF MulFits(n1, n2) /\ MulFits(d1, d2)
             THEN [n |-> n1 * n2, d |-> d1 * d2]
             ELSE Big
    ELSE IF IsNaN(x) \/ IsNaN(y) THEN NaN
    ELSE IF x.n = 0 \/ y.n = 0 THEN NaN
    ELSE Inf(Sgn(x.n) * Sgn(y.n))

Div(x, y) ==
    IF IsBig(x) \/ IsBig(y) THEN Big
    ELSE IF IsNaN(x) \/ IsNaN(y) THEN NaN
    ELSE IF IsFin(y) /\ y.n # 0
    THEN Mul(x, [n |-> Sgn(y.n) * y.d, d |-> Abs(y.n)])
    ELSE IF IsFin(y)
    THEN (IF x.n = 0 THEN NaN ELSE Inf(Sgn(x.n)))
    ELSE IF IsFin(x) THEN Zero ELSE NaN

\* x < y, x <= y as IEEE compares them: false when either side is nan
Lt(x, y) ==
    /\ ~IsNaN(x) /\ ~IsNaN(y)
    /\ IF IsFin(x) /\ IsFin(y) THEN x.n * y.d < y.n * x.d
       ELSE IF IsFin(x) THEN y.n > 0
       ELSE IF IsFin(y) THEN x.n < 0
       ELSE x.n < y.n

Le(x, y) == ~IsNaN(x) /\ ~IsNaN(y) /\ (x = y \/ Lt(x, y))

\* np.exp(e) for an integer exponent e, in units of ln 2
Exp(e) ==
    IF Pow2(Abs(e) \div 2) > MaxMag \div Pow2(Abs(e) - Abs(e) \div 2) THEN Big
    ELSE IF e >= 0 THEN FromInt(Pow2(e)) ELSE [n |-> 1, d |-> Pow2(-e)]

RECURSIVE SumSeq(_)
SumSeq(s) == IF s = <<>> THEN Zero ELSE Add(Head(s), SumSeq(Tail(s)))

\* ----------------------------------------------------------- pure helpers
\* the source indexes from 0; sequences here index from 1
TDMatrix_Swapped(ts) ==
    [i \in 1..Len(ts) |->
        [j \in 1..Len(ts) |-> IF j <= i THEN ts[j] - ts[i] ELSE 0]]

TDMatrix(ts) ==
    [i \in 1..Len(ts) |->
        [j \in 1..Len(ts) |-> IF j <= i THEN ts[i] - ts[j] ELSE 0]]

\* the (row, col, data) triplets in the order the two loops append them
RECURSIVE SparseLoop(_, _, _, _, _)
SparseLoop(ts, max_td, i, j, acc) ==
    IF i > Len(ts) THEN acc
    ELSE IF j > i THEN SparseLoop(ts, max_td, i + 1, 1, acc)
    ELSE LET td == ts[i] - ts[j]
             nxt == IF td >= max_td
                    THEN [row  |-> Append(acc.row, i - 1),
                          col  |-> Append(acc.col, j - 1),
                          data |-> Append(acc.data, td)]
                    ELSE acc
         IN  SparseLoop(ts, max_td, i, j + 1, nxt)

SparseTDMatrix_Strict(ts, max_td) ==
    LET all == SparseLoop(ts, max_td + 1, 1, 1,
                          [row |-> <<>>, col |-> <<>>, data |-> <<>>])
    IN  [row |-> all.row, col |-> all.col, data |-> all.data, shape |-> Len(ts)]

SparseTDMatrix(ts, max_td) ==
    LET all == SparseLoop(ts, max_td, 1, 1,
                          [row |-> <<>>, col |-> <<>>, data |-> <<>>])
    IN  [row |-> all.row, col |-> all.col, data |-> all.data, shape |-> Len(ts)]

RowSums(m) == [i \in 1..Len(m) |-> SumSeq(m[i])]

\* line 92 left out: the upper triangle keeps a * exp(0)
StructProbMatrix_NoTriu(dtm, m, aa, bb) ==
    LET n == Len(dtm)
        raw == [i \in 1..n |-> [j \in 1..n |-> Mul(aa, Exp(-bb * dtm[i][j]))]]
        dia == [i \in 1..n |-> [j \in 1..n |-> IF j = i THEN m ELSE raw[i][j]]]
        sums == RowSums(dia)
    IN  [i \in 1..n |-> [j \in 1..n |-> Div(dia[i][j], sums[i])]]

\* line 94 left out: the rows are not normalised
StructProbMatrix_NoNorm(dtm, m, aa, bb) ==
    LET n == Len(dtm)
        raw == [i \in 1..n |-> [j \in 1..n |-> Mul(aa, Exp(-bb * dtm[i][j]))]]
        tri == [i \in 1..n |-> [j \in 1..n |-> IF j >= i THEN Zero ELSE raw[i][j]]]
    IN  [i \in 1..n |-> [j \in 1..n |-> IF j = i THEN m ELSE tri[i][j]]]

StructProbMatrix(dtm, m, aa, bb) ==
    LET n == Len(dtm)
        raw == [i \in 1..n |-> [j \in 1..n |-> Mul(aa, Exp(-bb * dtm[i][j]))]]
        tri == [i \in 1..n |-> [j \in 1..n |-> IF j >= i THEN Zero ELSE raw[i][j]]]
        dia == [i \in 1..n |-> [j \in 1..n |-> IF j = i THEN m ELSE tri[i][j]]]
        sums == RowSums(dia)
    IN  [i \in 1..n |-> [j \in 1..n |-> Div(dia[i][j], sums[i])]]

\* the matrix holds no value beyond MaxMag
MatrixFits(m) == \A i \in 1..Len(m) : \A j \in 1..Len(m[i]) : ~IsBig(m[i][j])

Diag(m) == [i \in 1..Len(m) |-> m[i][i]]

\* (p * dt).sum(): the sum of the elementwise product over the whole matrix
SumProd(pm, dtm) ==
    SumSeq([i \in 1..Len(pm) |->
        SumSeq([j \in 1..Len(pm) |-> Mul(pm[i][j], FromInt(dtm[i][j]))])])

\* lines 194-196
Stats(ts, pm, dtm) ==
    LET s0 == SumSeq(Diag(pm))
    IN  [S0 |-> s0,
         S1 |-> Sub(FromInt(Len(ts)), s0),
         S2 |-> Neg(SumProd(pm, dtm))]

\* the remaining exposure T - t of every event
Exposure(ts, TT) == [i \in 1..Len(ts) |-> TT - ts[i]]

\* np.sum(1 - np.exp(-b * (T - t)))
SumOneMinusExp(bb, ts, TT) ==
    SumSeq([i \in 1..Len(ts) |-> Sub(One, Exp(-bb * Exposure(ts, TT)[i]))])

\* line 200
NewA(bb, st, ts, TT) == Div(Mul(FromInt(bb), st.S1), SumOneMinusExp(bb, ts, TT))

\* the values the root-finder may return
BSet == (-MaxB..MaxB) \ {0}

\* newton(f(t, T, S0, S1, S2), seed): the values it can return.  scipy's newton
\* either returns an estimated zero of fclosed or raises RuntimeError; where the
\* zero lies is not computed here.  What is used of a zero: fclosed is finite
\* there, and, the denominator D(b) = sum(1 - exp(-b(T - t))) being concave
\* with D(0) = 0, S2 + S1/b = S1 * D'(b)/D(b) with S1 > 0 > S2 forces b and
\* D(b) to have the same sign.
NewtonRoots(ts, TT, st, seed) ==
    {nb \in BSet :
        LET D == SumOneMinusExp(nb, ts, TT)
        IN  /\ IsFin(st.S1) /\ IsFin(st.S2)
            /\ IsFin(D) /\ Sgn(nb) * Sgn(D.n) > 0}

\* xrange(niter): whether another iteration follows
LoopContinues_OffByOne(done, n) == done + 1 < n

LoopContinues(done, n) == done < n

StrictlyIncreasing(ts) == \A i \in 1..(Len(ts) - 1) : ts[i] < ts[i + 1]

NonIncreasing(ts) == \A i \in 1..(Len(ts) - 1) : ts[i] >= ts[i + 1]

\* the preconditions the callers are to meet
ValidInput ==
    /\ Len(t) >= 2 /\ StrictlyIncreasing(t)
    /\ mu0 > 0 /\ a0 > 0 /\ b0 > 0

AllSeqs == UNION {[1..k -> 0..MaxTime] : k \in 0..MaxN}

\* inputs of the driver: the valid sequences, those too short, and those
\* that run backwards or stand still
EMSeqs == {s \in AllSeqs : StrictlyIncreasing(s) \/ NonIncreasing(s)}

\* inputs of the matrix functions: every sequence, and the one of the
\* documented scenario
FnSeqs == AllSeqs \cup {<<0, 1, 2, 10>>}

NoStats == [S0 |-> Zero, S1 |-> Zero, S2 |-> Zero]

NoSparse == [row |-> <<>>, col |-> <<>>, data |-> <<>>, shape |-> 0]

Event(step, tri, seed, pm) == [step |-> step, tri |-> tri, seed |-> seed, p |-> pm]

\* ------------------------------------------------- ExpectationMaximization
Init ==
    /\ t \in EMSeqs
    /\ niter \in 0..MaxIter
    /\ mu0 \in 0..MaxParam
    /\ a0 \in 1..MaxParam
    /\ b0 \in 1..MaxB
    /\ hasCb \in BOOLEAN
    /\ maxTd = 0
    /\ pc = "start"
    /\ it = 0
    /\ T = 0 /\ dt = <<>> /\ mu = Zero /\ a = Zero /\ b = 0 /\ p = <<>>
    /\ S = NoStats
    /\ bound = {}
    /\ sp = NoSparse
    /\ trace = <<>>
    /\ err = "none"

\* lines 183-185, t[-1] of an empty sequence raising IndexError
Begin ==
    /\ pc = "start"
    /\ \/ /\ Len(t) = 0
          /\ pc' = "error" /\ err' = "IndexError"
          /\ UNCHANGED <<T, dt, mu, a, b, bound>>
       \/ /\ Len(t) > 0
          /\ T' = t[Len(t)] - t[1]
          /\ dt' = TDMatrix(t)
          /\ mu' = FromInt(mu0) /\ a' = FromInt(a0) /\ b' = b0
          /\ bound' = {"T", "dt", "mu", "a", "b"}
          /\ pc' = "loop" /\ err' = err
    /\ UNCHANGED <<t, niter, mu0, a0, b0, hasCb, maxTd, it, p, S, sp, trace>>

\* line 187
LoopNext ==
    /\ pc = "loop"
    /\ LoopContinues(it, niter)
    /\ pc' = "E"
    /\ UNCHANGED <<t, niter, mu0, a0, b0, hasCb, maxTd, it, T, dt, mu, a, b, p, S,
                   bound, sp, trace, err>>

\* line 205, reading p raising UnboundLocalError when no iteration bound it
Return ==
    /\ pc = "loop"
    /\ ~LoopContinues(it, niter)
    /\ \/ /\ "p" \in bound
          /\ pc' = "done" /\ err' = err
       \/ /\ "p" \notin bound
          /\ pc' = "error" /\ err' = "UnboundLocalError"
    /\ UNCHANGED <<t, niter, mu0, a0, b0, hasCb, maxTd, it, T, dt, mu, a, b, p, S,
                   bound, sp, trace>>

\* the E-step run with the initial parameters in every iteration
EStep_FromInitial ==
    /\ pc = "E"
    /\ LET np == StructProbMatrix(dt, FromInt(mu0), FromInt(a0), b0)
       IN  /\ MatrixFits(np)
           /\ p' = np
           /\ trace' = Append(trace, Event("E", <<FromInt(mu0), FromInt(a0), b0>>, 0, np))
    /\ bound' = bound \cup {"p"}
    /\ pc' = "M"
    /\ UNCHANGED <<t, niter, mu0, a0, b0, hasCb, maxTd, it, T, dt, mu, a, b, S, sp, err>>

\* line 190
EStep ==
    /\ pc = "E"
    /\ LET np == StructProbMatrix(dt, mu, a, b)
       IN  /\ MatrixFits(np)
           /\ p' = np
           /\ trace' = Append(trace, Event("E", <<mu, a, b>>, 0, np))
    /\ bound' = bound \cup {"p"}
    /\ pc' = "M"
    /\ UNCHANGED <<t, niter, mu0, a0, b0, hasCb, maxTd, it, T, dt, mu, a, b, S, sp, err>>

StatsFit(st) == ~IsBig(st.S0) /\ ~IsBig(st.S1) /\ ~IsBig(st.S2)

\* lines 194-200, the root-find returning
MStepOk ==
    /\ pc = "M"
    /\ LET st == Stats(t, p, dt)
           nmu == Div(st.S0, FromInt(T))
       IN  /\ StatsFit(st) /\ ~IsBig(nmu)
           /\ \E nb \in NewtonRoots(t, T, st, b) :
                 LET na == NewA(nb, st, t, T)
                 IN  /\ ~IsBig(na)
                     /\ S' = st
                     /\ mu' = nmu /\ b' = nb /\ a' = na
                     /\ trace' = Append(trace, Event("M", <<nmu, na, nb>>, b, p))
    /\ bound' = bound \cup {"S0", "S1", "S2"}
    /\ pc' = "cb"
    /\ UNCHANGED <<t, niter, mu0, a0, b0, hasCb, maxTd, it, T, dt, p, sp, err>>

\* a failed root-find swallowed: the iteration goes on with the old b
MStepFail_Swallowed ==
    /\ pc = "M"
    /\ LET st == Stats(t, p, dt)
           nmu == Div(st.S0, FromInt(T))
       IN  /\ StatsFit(st) /\ ~IsBig(nmu)
           /\ S' = st
           /\ mu' = nmu
    /\ bound' = bound \cup {"S0", "S1", "S2"}
    /\ pc' = "cb" /\ err' = "RuntimeError"
    /\ UNCHANGED <<t, niter, mu0, a0, b0, hasCb, maxTd, it, T, dt, a, b, p, sp, trace>>

\* lines 194-199, the root-find raising RuntimeError, which nothing catches
MStepFail ==
    /\ pc = "M"
    /\ LET st == Stats(t, p, dt)
           nmu == Div(st.S0, FromInt(T))
       IN  /\ StatsFit(st) /\ ~IsBig(nmu)
           /\ S' = st
           /\ mu' = nmu
    /\ bound' = bound \cup {"S0", "S1", "S2"}
    /\ pc' = "error" /\ err' = "RuntimeError"
    /\ UNCHANGED <<t, niter, mu0, a0, b0, hasCb, maxTd, it, T, dt, a, b, p, sp, trace>>

\* lines 202-203, and the end of the loop body
Callback ==
    /\ pc = "cb"
    /\ \/ /\ hasCb
          /\ trace' = Append(trace, Event("C", <<mu, a, b>>, 0, p))
       \/ /\ ~hasCb
          /\ trace' = trace
    /\ it' = it + 1
    /\ pc' = "loop"
    /\ UNCHANGED <<t, niter, mu0, a0, b0, hasCb, maxTd, T, dt, mu, a, b, p, S,
                   bound, sp, err>>

Next == Begin \/ LoopNext \/ Return \/ EStep \/ MStepOk \/ MStepFail \/ Callback

Spec == Init /\ [][Next]_vars

\* ------------------------------------- the matrix functions called directly
\* A run applies TDMatrix to t and then at most one of SparseTDMatrix (to t) and
\* StructProbMatrix (to the dt obtained): the functions share no state, so
\* applying both in one run would show nothing more.
InitFn ==
    /\ t \in FnSeqs
    /\ niter = 0 /\ mu0 = 0 /\ a0 = 0 /\ b0 = 0 /\ hasCb = FALSE
    /\ maxTd = 0
    /\ pc = "fn"
    /\ it = 0
    /\ T = 0 /\ dt = <<>> /\ mu = Zero /\ a = Zero /\ b = 0 /\ p = <<>>
    /\ S = NoStats
    /\ bound = {}
    /\ sp = NoSparse
    /\ trace = <<>>
    /\ err = "none"

\* dt = TDMatrix(t)
FnTDMatrix ==
    /\ pc = "fn" /\ "dt" \notin bound
    /\ dt' = TDMatrix(t)
    /\ bound' = bound \cup {"dt"}
    /\ UNCHANGED <<t, niter, mu0, a0, b0, hasCb, maxTd, pc, it, T, mu, a, b, p, S,
                   sp, trace, err>>

\* sp = SparseTDMatrix(t, max_td)
FnSparseTDMatrix ==
    /\ pc = "fn" /\ "sp" \notin bound /\ "p" \notin bound
    /\ \E m \in 0..MaxTd :
          /\ maxTd' = m
          /\ sp' = SparseTDMatrix(t, m)
    /\ bound' = bound \cup {"sp"}
    /\ UNCHANGED <<t, niter, mu0, a0, b0, hasCb, pc, it, T, dt, mu, a, b, p, S,
                   trace, err>>

\* p = StructProbMatrix(dt, mu, a, b) with positive parameters
FnStructProbMatrix ==
    /\ pc = "fn" /\ "dt" \in bound /\ "p" \notin bound /\ "sp" \notin bound
    /\ \E m \in 1..MaxParam, aa \in 1..MaxParam, bb \in 1..MaxB :
          LET np == StructProbMatrix(dt, FromInt(m), FromInt(aa), bb)
          IN  /\ MatrixFits(np)
              /\ mu0' = m /\ a0' = aa /\ b0' = bb
              /\ p' = np
    /\ bound' = bound \cup {"p"}
    /\ UNCHANGED <<t, niter, hasCb, maxTd, pc, it, T, dt, mu, a, b, S, sp, trace, err>>

NextFn == FnTDMatrix \/ FnSparseTDMatrix \/ FnStructProbMatrix

SpecFn == InitFn /\ [][NextFn]_vars

\* ------------------------------------------------------------ the claims
N == Len(t)

\* C1: for dt built from a strictly increasing sequence of n >= 1 timestamps
\* and positive mu, a, b, the matrix StructProbMatrix returns has zeros above
\* the diagonal, entries in [0, 1], rows that sum to 1, and first row (1, 0, .., 0).
C1_RowStochastic ==
    (pc = "fn" /\ "p" \in bound /\ N >= 1 /\ StrictlyIncreasing(t)) =>
        /\ Len(p) = N
        /\ \A i \in 1..N :
              /\ Len(p[i]) = N
              /\ \A j \in 1..N :
                    /\ (j > i => p[i][j] = Zero)
                    /\ Le(Zero, p[i][j]) /\ Le(p[i][j], One)
              /\ SumSeq(p[i]) = One
        /\ p[1] = [j \in 1..N |-> IF j = 1 THEN One ELSE Zero]

C1_Witness ==
    /\ pc = "fn" /\ "p" \in bound /\ N = 3 /\ StrictlyIncreasing(t)
    /\ Lt(Zero, p[3][1]) /\ Lt(p[3][1], p[3][2]) /\ Lt(p[3][3], One)

Stored == {<<sp.row[k], sp.col[k]>> : k \in 1..Len(sp.row)}

\* C3: for strictly increasing t and max_td >= 0 SparseTDMatrix stores exactly
\* the pairs (i, j), j <= i, with t[i] - t[j] >= max_td, each once and with the
\* value t[i] - t[j]; for t = [0, 1, 2, 10] and max_td = 5 these are (3,0),
\* (3,1) and (3,2).
C3_SparseStored ==
    (pc = "fn" /\ "sp" \in bound /\ StrictlyIncreasing(t)) =>
        /\ Stored = {ij \in (0..(N - 1)) \X (0..(N - 1)) :
                        ij[2] <= ij[1] /\ t[ij[1] + 1] - t[ij[2] + 1] >= maxTd}
        /\ Len(sp.col) = Len(sp.row) /\ Len(sp.data) = Len(sp.row)
        /\ Cardinality(Stored) = Len(sp.row)
        /\ \A k \in 1..Len(sp.row) :
              sp.data[k] = t[sp.row[k] + 1] - t[sp.col[k] + 1]
        /\ sp.shape = N
        /\ ((t = <<0, 1, 2, 10>> /\ maxTd = 5) =>
                Stored = {<<3, 0>>, <<3, 1>>, <<3, 2>>})

C3_Witness ==
    /\ pc = "fn" /\ "sp" \in bound
    /\ t = <<0, 1, 2, 10>> /\ maxTd = 5
    /\ sp.data = <<10, 9, 8>>

\* C4: in every iteration on n events S0 is the sum of the diagonal of p,
\* S0 + S1 = n, 1 <= S0 <= n and 0 <= S1 <= n - 1.
C4_StatsBounds ==
    (ValidInput /\ "S0" \in bound) =>
        /\ (pc # "M" => S.S0 = SumSeq(Diag(p)))
        /\ Add(S.S0, S.S1) = FromInt(N)
        /\ Le(One, S.S0) /\ Le(S.S0, FromInt(N))
        /\ Le(Zero, S.S1) /\ Le(S.S1, FromInt(N - 1))

C4_Witness ==
    /\ ValidInput /\ N = 3 /\ it = 1 /\ pc = "cb"
    /\ Lt(One, S.S0) /\ Lt(S.S0, FromInt(N))

Steps == [i \in 1..Len(trace) |-> trace[i].step]

Count(st) == Cardinality({i \in 1..Len(trace) : trace[i].step = st})

\* the steps of one iteration, in order
Cycle == IF hasCb THEN <<"E", "M", "C">> ELSE <<"E", "M">>

\* C5: for niter >= 1, in a run in which no step fails, E-steps and M-steps
\* alternate starting with E, the callback (when there is one) is called once
\* per iteration after the M-step and before the next E-step, and the driver
\* returns (mu, a, b, p) after exactly niter iterations.
C5_Alternation ==
    (pc # "fn" /\ niter >= 1 /\ err = "none") =>
        /\ \A i \in 1..Len(trace) : Steps[i] = Cycle[((i - 1) % Len(Cycle)) + 1]
        /\ Len(trace) <= niter * Len(Cycle)
        /\ (pc = "loop" => Len(trace) = it * Len(Cycle))
        /\ (pc = "done" =>
                /\ Len(trace) = niter * Len(Cycle)
                /\ Count("E") = niter /\ Count("M") = niter
                /\ Count("C") = IF hasCb THEN niter ELSE 0
                /\ {"mu", "a", "b", "p"} \subseteq bound)

C5_Witness ==
    /\ pc = "done" /\ niter = 2 /\ hasCb
    /\ Steps = <<"E", "M", "C", "E", "M", "C">>

\* C6: with input that violates a precondition (timestamps not strictly
\* increasing, a non-positive initial parameter, fewer than 2 timestamps) no
\* E-step, M-step or callback is performed and nothing is returned.
C6_InvalidInputRejected ==
    (pc # "fn" /\ ~ValidInput) =>
        /\ trace = <<>>
        /\ pc \notin {"E", "M", "cb", "done"}

\* C7: when the root-find of iteration k fails, the error ends the run there:
\* the callback is not called for iteration k, no later E-step or M-step runs,
\* and nothing is returned.
C7_RootFailureHalts ==
    (err = "RuntimeError") =>
        /\ pc = "error"
        /\ Count("E") = it + 1
        /\ Count("M") = it
        /\ Count("C") = IF hasCb THEN it ELSE 0
        /\ Steps[Len(trace)] = "E"

C7_Witness ==
    /\ err = "RuntimeError" /\ pc = "error" /\ it = 1 /\ hasCb
    /\ Steps = <<"E", "M", "C", "E">>

\* the last step st before position i of the trace, 0 when there is none
LastIdx(i, st) ==
    LET js == {j \in 1..(i - 1) : trace[j].step = st}
    IN  IF js = {} THEN 0 ELSE CHOOSE j \in js : \A k \in js : k <= j

\* the triple an E-step at position i is to use
Entering(i) ==
    IF LastIdx(i, "M") = 0 THEN <<FromInt(mu0), FromInt(a0), b0>>
    ELSE trace[LastIdx(i, "M")].tri

\* C8: T and dt are those of the input in every iteration; the E-step of
\* iteration 1 uses (mu0, a0, b0) and that of iteration k+1 the triple of the
\* M-step of iteration k, whose b also seeds the next root-find; the p given to
\* the callback and returned is the one of the triple that entered the
\* iteration, delivered with the updated triple.
C8_CarriedState ==
    (pc \notin {"fn", "start"} /\ err # "IndexError") =>
        /\ T = t[N] - t[1]
        /\ dt = [i \in 1..N |-> [j \in 1..N |-> IF j <= i THEN t[i] - t[j] ELSE 0]]
        /\ \A i \in 1..Len(trace) :
              /\ (Steps[i] = "E" =>
                    /\ trace[i].tri = Entering(i)
                    /\ trace[i].p = StructProbMatrix(dt, Entering(i)[1],
                                                     Entering(i)[2], Entering(i)[3]))
              /\ (Steps[i] = "M" =>
                    /\ trace[i].seed = Entering(i)[3]
                    /\ trace[i].p = trace[LastIdx(i, "E")].p)
              /\ (Steps[i] = "C" =>
                    /\ trace[i].tri = trace[LastIdx(i, "M")].tri
                    /\ trace[i].p = trace[LastIdx(i, "E")].p)
        /\ (pc = "done" =>
                /\ <<mu, a, b>> = trace[LastIdx(Len(trace) + 1, "M")].tri
                /\ p = trace[LastIdx(Len(trace) + 1, "E")].p)

C8_Witness ==
    /\ pc = "done" /\ niter = 2 /\ hasCb /\ ValidInput
    /\ trace[4].tri = trace[2].tri
    /\ trace[4].tri # <<FromInt(mu0), FromInt(a0), b0>>
    /\ trace[5].seed = trace[2].tri[3]
    /\ trace[5].seed # b0

\* C9: for every iteration count, niter = 0 included, a call with valid input
\* whose root-finds succeed returns (mu, a, b, p) with every component
\* defined, and with niter = 0 the triple returned is (mu0, a0, b0).
C9_AlwaysReturns ==
    (ValidInput /\ pc \in {"done", "error"} /\ err # "RuntimeError") =>
        /\ pc = "done"
        /\ {"mu", "a", "b", "p"} \subseteq bound
        /\ (niter = 0 => <<mu, a, b>> = <<FromInt(mu0), FromInt(a0), b0>>)

\* C10: for strictly increasing t with n >= 2, whatever its first timestamp,
\* every T - t[i] the M-step evaluates is non-negative.
C10_ExposureNonNegative ==
    (ValidInput /\ pc = "M") => \A i \in 1..N : Exposure(t, T)[i] >= 0

====
